---- MODULE Spec2Model ----
(***************************************************************************)
(* A model of AnniesLasso/cannon.py: CannonModel.train, CannonModel.fit    *)
(* and the per-pixel fitting functions _fit_pixel,                         *)
(* _fit_pixel_with_fixed_scatter and _fit_theta.                           *)
(*                                                                         *)
(* Numbers are exact rationals <<n, d>> (d > 0, lowest terms), so a linear *)
(* solve is the exact solve and "singular" means determinant zero, which   *)
(* is the case in which numpy.linalg.inv raises LinAlgError on the inputs  *)
(* used here.  Scatter variances are perfect squares, on which the square  *)
(* root is exact.  What the library routines scipy.optimize.fmin_powell    *)
(* and scipy.optimize.curve_fit compute is not modelled: the scatter the   *)
(* first returns and the number of evaluations the second needs are        *)
(* chosen by the environment.  So is the interpreter, Python 2 or 3, on    *)
(* which what the builtin map returns and when pool.map raises depend.     *)
(***************************************************************************)
EXTENDS Integers, Sequences, FiniteSets, TLC

\* ---------------------------------------------------------------- bounds
NumPixels == 2
MaxTrains == 2
NumSpectra == 2

\* ------------------------------------------------------ program constants
\* maxfev handed to scipy.optimize.curve_fit by _fit_spectrum.
MaxFev == 1000000

None == <<>>

\* ------------------------------------------------------ exact arithmetic
Abs(x) == IF x < 0 THEN -x ELSE x

RECURSIVE GCD(_, _)
GCD(a, b) == IF b = 0 THEN a ELSE GCD(b, a % b)

\* n/d in lowest terms with a positive denominator.
RNorm(n, d) ==
    LET g == GCD(Abs(n), Abs(d))
        s == IF d < 0 THEN -1 ELSE 1
    IN  <<s * (n \div g), s * (d \div g)>>

R(i) == <<i, 1>>

RMul(x, y) ==
    LET g1 == GCD(Abs(x[1]), y[2])
        g2 == GCD(Abs(y[1]), x[2])
    IN  IF x[1] = 0 \/ y[1] = 0 THEN <<0, 1>>
        ELSE <<(x[1] \div g1) * (y[1] \div g2), (x[2] \div g2) * (y[2] \div g1)>>

RAdd(x, y) ==
    LET g == GCD(x[2], y[2])
    IN  RNorm(x[1] * (y[2] \div g) + y[1] * (x[2] \div g), x[2] * (y[2] \div g))

RNeg(x) == <<-x[1], x[2]>>

RSub(x, y) == RAdd(x, RNeg(y))

\* x / y for y # 0.
RDiv(x, y) == RMul(x, IF y[1] < 0 THEN <<-y[2], -y[1]>> ELSE <<y[2], y[1]>>)

RGeq0(x) == x[1] >= 0

\* numpy.sqrt on a perfect square.
ISqrt(n) == CHOOSE k \in 0..n : k * k = n
RSqrt(x) == <<ISqrt(x[1]), ISqrt(x[2])>>

RECURSIVE RSum(_, _)
\* f[1] + ... + f[n]
RSum(f, n) == IF n = 0 THEN <<0, 1>> ELSE RAdd(RSum(f, n - 1), f[n])

\* ------------------------------------------------------------- the data
\* self.design_matrix: one row per training star, one column per basis term.
DesignMatrix == << <<1, 0>>, <<1, 1>>, <<1, 2>> >>

\* The pixel observations a training set is drawn from: for one pixel, the
\* normalized flux and the normalized inverse variance of every star.
Catalogue ==
    << [flux |-> <<1, 2, 3>>, ivar |-> <<1, 1, 1>>],
       [flux |-> <<1, 3, 2>>, ivar |-> <<20000, 10000, 10000>>],
       [flux |-> <<0, 0, 0>>, ivar |-> <<0, 0, 0>>],
       [flux |-> <<0, 0, 0>>, ivar |-> <<1, 1, 1>>],
       [flux |-> <<1, 0, 2>>, ivar |-> <<1, 0, 0>>] >>

Pixels == 1..NumPixels
Spectra == 1..NumSpectra

\* 0.01, the initial scatter guess of a pixel whose scatter is not fixed.
P0Default == <<1, 100>>

\* The values the scatter optimizer may return.
OptScatters == {<<-1, 100>>, <<1, 50>>}

\* The scalars the caller may set s2 to.
S2Values == {<<0, 1>>, <<1, 10000>>}

\* The numbers of function evaluations a spectrum's nonlinear fit may need.
NfevNeeded == {1, MaxFev + 1}

\* ------------------------------------------------------------ _fit_theta
\* ivar = normalized_ivar / (1. + normalized_ivar * scatter**2)
EffectiveIvar(normalized_ivar, scatter) ==
    [m \in 1..Len(normalized_ivar) |->
        RDiv(R(normalized_ivar[m]),
             RAdd(R(1), RMul(R(normalized_ivar[m]), RMul(scatter, scatter))))]

\* np.dot(dm.T, dm * tile(ivar).T)
Gram(dm, ivar) ==
    [a \in 1..Len(dm[1]) |-> [b \in 1..Len(dm[1]) |->
        RSum([m \in 1..Len(dm) |-> RMul(R(dm[m][a] * dm[m][b]), ivar[m])], Len(dm))]]

Det2(A) == RSub(RMul(A[1][1], A[2][2]), RMul(A[1][2], A[2][1]))

\* np.linalg.inv raises LinAlgError on A.
IsSingular(A) == Det2(A)[1] = 0

Inv2(A) ==
    LET d == Det2(A)
    IN  << <<RDiv(A[2][2], d), RDiv(RNeg(A[1][2]), d)>>,
           <<RDiv(RNeg(A[2][1]), d), RDiv(A[1][1], d)>> >>

\* np.dot(dm.T, normalized_flux * ivar)
ATYOf(dm, normalized_flux, ivar) ==
    [a \in 1..Len(dm[1]) |->
        RSum([m \in 1..Len(dm) |-> RMul(R(dm[m][a] * normalized_flux[m]), ivar[m])],
             Len(dm))]

MatVec(A, v) ==
    [a \in 1..Len(A) |-> RSum([b \in 1..Len(v) |-> RMul(A[a][b], v[b])], Len(v))]

\* np.hstack([1, [0] * (design_matrix.shape[1] - 1)])
FallbackTheta(dm) == [k \in 1..Len(dm[1]) |-> IF k = 1 THEN R(1) ELSE R(0)]

_fit_theta_unweighted(normalized_flux, normalized_ivar, scatter, dm) ==
    LET ivar == EffectiveIvar(normalized_ivar, scatter)
        A == Gram(dm, ivar)
    IN  IF IsSingular(A)
        THEN [theta |-> FallbackTheta(dm), ATCiAinv |-> None, inv_var |-> ivar]
        ELSE [theta |-> MatVec(Inv2(A),
                               ATYOf(dm, normalized_flux,
                                     [m \in 1..Len(dm) |-> R(1)])),
              ATCiAinv |-> Inv2(A), inv_var |-> ivar]

\* _fit_theta, with the module global design_matrix passed as dm.
_fit_theta(normalized_flux, normalized_ivar, scatter, dm) ==
    LET ivar == EffectiveIvar(normalized_ivar, scatter)
        A == Gram(dm, ivar)
    IN  IF IsSingular(A)
        THEN [theta |-> FallbackTheta(dm), ATCiAinv |-> None, inv_var |-> ivar]
        ELSE [theta |-> MatVec(Inv2(A), ATYOf(dm, normalized_flux, ivar)),
              ATCiAinv |-> Inv2(A), inv_var |-> ivar]

\* ----------------------------------------- _fit_pixel_with_fixed_scatter
\* The objective of the scatter optimizer at one trial scatter: 0.0 when the
\* solve is singular, chi_sq + log_det otherwise (kept symbolic).
_fit_pixel_with_fixed_scatter(scatter, normalized_flux, normalized_ivar, dm) ==
    LET fit == _fit_theta(normalized_flux, normalized_ivar, scatter, dm)
    IN  [at |-> scatter,
         Q |-> IF fit.ATCiAinv = None THEN "zero" ELSE "chi_sq_plus_log_det",
         theta |-> fit.theta, ATCiAinv |-> fit.ATCiAinv]

\* op.fmin_powell(_fit_pixel_with_fixed_scatter, scatter, ...): the objective
\* is evaluated at the start point and at the point returned; xopt is the
\* value the optimizer returns.
fmin_powell(x0, normalized_flux, normalized_ivar, dm, xopt) ==
    [op |-> "fmin_powell", x0 |-> x0, xopt |-> xopt,
     trials |-> <<_fit_pixel_with_fixed_scatter(x0, normalized_flux, normalized_ivar, dm),
                  _fit_pixel_with_fixed_scatter(xopt, normalized_flux, normalized_ivar, dm)>>]

\* One call of _fit_theta as it appears in a pixel fit's call log.
SolveCall(scatter, fit) ==
    [op |-> "_fit_theta", at |-> scatter, theta |-> fit.theta,
     ATCiAinv |-> fit.ATCiAinv]

\* ------------------------------------------------------------ _fit_pixel
_fit_pixel_no_short_circuit(normalized_flux, normalized_ivar, scatter, fixed, dm, op_scatter) ==
    LET first == _fit_theta(normalized_flux, normalized_ivar, scatter, dm)
        last == _fit_theta(normalized_flux, normalized_ivar, op_scatter, dm)
    IN  IF fixed
        THEN [theta |-> first.theta, scatter |-> scatter,
              calls |-> <<SolveCall(scatter, first)>>]
        ELSE [theta |-> last.theta, scatter |-> op_scatter,
              calls |-> <<SolveCall(scatter, first),
                          fmin_powell(scatter, normalized_flux, normalized_ivar, dm, op_scatter),
                          SolveCall(op_scatter, last)>>]

_fit_pixel_no_resolve(normalized_flux, normalized_ivar, scatter, fixed, dm, op_scatter) ==
    LET first == _fit_theta(normalized_flux, normalized_ivar, scatter, dm)
    IN  IF first.ATCiAinv = None \/ fixed
        THEN [theta |-> first.theta,
              scatter |-> IF fixed THEN scatter ELSE R(0),
              calls |-> <<SolveCall(scatter, first)>>]
        ELSE [theta |-> first.theta, scatter |-> op_scatter,
              calls |-> <<SolveCall(scatter, first),
                          fmin_powell(scatter, normalized_flux, normalized_ivar, dm, op_scatter)>>]

\* _fit_pixel: the returned row np.hstack([theta, scatter]) as a record, with
\* the log of the calls made; op_scatter is what fmin_powell returns if it is called.
_fit_pixel(normalized_flux, normalized_ivar, scatter, fixed, dm, op_scatter) ==
    LET first == _fit_theta(normalized_flux, normalized_ivar, scatter, dm)
        last == _fit_theta(normalized_flux, normalized_ivar, op_scatter, dm)
    IN  IF first.ATCiAinv = None \/ fixed
        THEN [theta |-> first.theta,
              scatter |-> IF fixed THEN scatter ELSE R(0),
              calls |-> <<SolveCall(scatter, first)>>]
        ELSE [theta |-> last.theta, scatter |-> op_scatter,
              calls |-> <<SolveCall(scatter, first),
                          fmin_powell(scatter, normalized_flux, normalized_ivar, dm, op_scatter),
                          SolveCall(op_scatter, last)>>]

\* --------------------------------------------------------- _fit_spectrum
\* _fit_spectrum on spectrum j: curve_fit with maxfev = 10**6 raises
\* RuntimeError when the fit needs more evaluations than that, and returns
\* the labels otherwise.
_fit_spectrum(j, nfev) ==
    IF nfev > MaxFev
    THEN [nfev |-> nfev, ok |-> FALSE, labels |-> None]
    ELSE [nfev |-> nfev, ok |-> TRUE, labels |-> <<"labels", j>>]

\* ----------------------------------------------------- CannonModel.train
FixedScatterNoCheck(fixed, s2v) == FALSE

\* if fixed_scatter and self.s2 is None
FixedScatterUnset(fixed, s2v) == fixed /\ s2v = None

P0ScatterIgnoresS2(fixed, s2v) == [i \in Pixels |-> P0Default]

\* p0_scatter = np.sqrt(self.s2) if fixed_scatter else 0.01 * np.ones_like(...)
P0Scatter(fixed, s2v) ==
    IF fixed THEN [i \in 1..Len(s2v) |-> RSqrt(s2v[i])] ELSE [i \in Pixels |-> P0Default]

MapResultsUnordered(res, order) == [k \in 1..Len(order) |-> res[order[k]]]

\* The list mapper(f, rows) makes of the tasks' results (pool.map, or the
\* builtin map of Python 2): they are in the order of the rows.
MapResults(res, order) == [i \in 1..Len(order) |-> res[i]]

\* results[:, :-1]
CommitTheta(rows) == [i \in 1..Len(rows) |-> rows[i].theta]

CommitS2NoSquare(rows) == [i \in 1..Len(rows) |-> rows[i].scatter]

\* results[:, -1]**2
CommitS2(rows) == [i \in 1..Len(rows) |-> RMul(rows[i].scatter, rows[i].scatter)]

AbortKeepsPartial(old, res) ==
    [theta |-> [i \in Pixels |-> IF res[i] = None THEN None ELSE res[i].theta],
     s2 |-> [i \in Pixels |-> IF res[i] = None THEN None
                              ELSE RMul(res[i].scatter, res[i].scatter)]]

\* An error raised by a task propagates out of line 147: the assignment of
\* line 150 is not reached and the model keeps what it had.
Abort(old, res) == old

\* ---------------------------------------------------------------- state
VARIABLES
    normalized_flux,   \* self.normalized_flux.T: per pixel, the flux of every star
    normalized_ivar,   \* self.normalized_ivar.T
    pool,              \* self.pool: 0 for None, else the number of processes
    python,            \* the major version of the interpreter: 2 or 3
    pool_gen,          \* how many times the pool was closed and re-created
    design_matrix,     \* the module global design_matrix
    theta,             \* self.theta
    s2,                \* self.s2
    pc,                \* "idle", "train", "fit", "returned", "raised"
    call,              \* the method being executed
    outcome,           \* how the call ended
    trains,            \* the number of train calls made
    fixed_scatter,     \* train's argument
    p0_scatter,        \* train's local
    results,           \* the tasks' results, by row of the input
    completion,        \* the rows whose tasks returned, in the order they did
    failed,            \* the rows whose tasks ended in an uncaught error
    pre,               \* theta, s2 and pool_gen when the call was made
    ret                \* fit's return value

vars == <<normalized_flux, normalized_ivar, pool, python, pool_gen, design_matrix,
          theta, s2, pc, call, outcome, trains, fixed_scatter, p0_scatter, results,
          completion, failed, pre, ret>>

data == <<normalized_flux, normalized_ivar, pool, python>>
frame == <<fixed_scatter, p0_scatter, results, completion, failed, pre, ret>>

\* The training set whose pixels are the catalogue's observations from the
\* one numbered first on, cyclically.
Observation(first, i) == Catalogue[((first + i - 2) % Len(Catalogue)) + 1]

\* The catalogue cut into training sets of NumPixels pixels, the last one
\* filled up from the start of the catalogue.
TrainingSets == {first \in 1..Len(Catalogue) : (first - 1) % NumPixels = 0}

\* self.pool: none, one process, two processes.
PoolSizes == {0, 1, 2}

\* The interpreters the module is written for (from __future__ import ...).
Pythons == {2, 3}

Init ==
    /\ \E first \in TrainingSets :
          /\ normalized_flux = [i \in Pixels |-> Observation(first, i).flux]
          /\ normalized_ivar = [i \in Pixels |-> Observation(first, i).ivar]
    /\ pool \in PoolSizes
    /\ python \in Pythons
    /\ pool_gen = 0
    /\ design_matrix = None
    /\ theta = None
    /\ s2 = None
    /\ pc = "idle"
    /\ call = "none"
    /\ outcome = "none"
    /\ trains = 0
    /\ fixed_scatter = FALSE
    /\ p0_scatter = None
    /\ results = None
    /\ completion = <<>>
    /\ failed = {}
    /\ pre = None
    /\ ret = None

\* The s2 setter: a scalar is broadcast to every pixel.
SetS2(v) ==
    /\ pc = "idle"
    /\ s2' = [i \in Pixels |-> v]
    /\ UNCHANGED <<data, pool_gen, design_matrix, theta, pc, call, outcome, trains,
                   frame>>

\* train, lines 79-84: the precondition fails and ValueError is raised.  (Were
\* the check of line 79 passed with s2 None, np.sqrt(None) of line 84 would
\* raise TypeError.)
TrainRaise(fixed) ==
    /\ pc = "idle"
    /\ trains < MaxTrains
    /\ FixedScatterUnset(fixed, s2) \/ (fixed /\ s2 = None)
    /\ pc' = "raised"
    /\ call' = "train"
    /\ outcome' = IF FixedScatterUnset(fixed, s2) THEN "ValueError" ELSE "TypeError"
    /\ trains' = trains + 1
    /\ fixed_scatter' = fixed
    /\ pre' = [theta |-> theta, s2 |-> s2, pool_gen |-> pool_gen]
    /\ UNCHANGED <<data, pool_gen, design_matrix, theta, s2, p0_scatter, results,
                   completion, failed, ret>>

\* train, lines 83-144: the scatter is initialised, the design matrix is
\* published and the pool is closed and re-created.
TrainStart(fixed) ==
    /\ pc = "idle"
    /\ trains < MaxTrains
    /\ ~FixedScatterUnset(fixed, s2)
    /\ ~(fixed /\ s2 = None)
    /\ pc' = "train"
    /\ call' = "train"
    /\ trains' = trains + 1
    /\ fixed_scatter' = fixed
    /\ pre' = [theta |-> theta, s2 |-> s2, pool_gen |-> pool_gen]
    /\ p0_scatter' = P0Scatter(fixed, s2)
    /\ design_matrix' = DesignMatrix
    /\ pool_gen' = IF pool # 0 THEN pool_gen + 1 ELSE pool_gen
    /\ results' = [i \in Pixels |-> None]
    /\ completion' = <<>>
    /\ failed' = {}
    /\ UNCHANGED <<data, theta, s2, outcome, ret>>

\* mapper = map if self.pool is None else self.pool.map: without a pool, on
\* Python 3, the builtin map returns an iterator and runs nothing by itself.
LazyMap == pool = 0 /\ python = 3

\* Row i has run: its task returned or raised.
Finished(i, res) == res[i] # None \/ i \in failed

\* The builtin map and a pool of one process take the rows in order; the
\* workers of a pool of two or more processes complete them in any order.
CanRun(i, res) ==
    /\ ~Finished(i, res)
    /\ pool >= 2 \/ \A j \in 1..(i - 1) : Finished(j, res)

\* The workers of a pool go on with the rows that are left when a task has
\* raised, also after pool.map has handed the error to the caller.
TasksRunning(method, working, error) ==
    \/ pc = working
    \/ call = method /\ pc = "raised" /\ outcome = error /\ pool >= 1

\* pool.map hands a task's error to its caller: on Python 3 when every task of
\* the map has finished, on Python 2 as soon as the error is there.
PoolMapRaises(rows, res) ==
    /\ pool >= 1
    /\ failed # {}
    /\ python = 3 => \A i \in rows : Finished(i, res)

\* One pixel task runs to completion.
PixelTask(i) ==
    /\ TasksRunning("train", "train", "TaskError")
    /\ ~LazyMap
    /\ CanRun(i, results)
    /\ \E op_scatter \in OptScatters :
          results' = [results EXCEPT ![i] =
              _fit_pixel(normalized_flux[i], normalized_ivar[i], p0_scatter[i],
                         fixed_scatter, design_matrix, op_scatter)]
    /\ completion' = Append(completion, i)
    /\ UNCHANGED <<data, pool_gen, design_matrix, theta, s2, pc, call, outcome,
                   trains, fixed_scatter, p0_scatter, failed, pre, ret>>

\* A pixel task ends in an uncaught error, which the wrapper re-raises.  The
\* builtin map raises it in train there and then; a pool keeps it for
\* pool.map.
PixelTaskError(i) ==
    /\ TasksRunning("train", "train", "TaskError")
    /\ ~LazyMap
    /\ CanRun(i, results)
    /\ failed' = failed \cup {i}
    /\ IF pool = 0
       THEN /\ pc' = "raised"
            /\ outcome' = "TaskError"
            /\ theta' = Abort([theta |-> theta, s2 |-> s2], results).theta
            /\ s2' = Abort([theta |-> theta, s2 |-> s2], results).s2
       ELSE UNCHANGED <<pc, outcome, theta, s2>>
    /\ UNCHANGED <<data, pool_gen, design_matrix, call, trains, fixed_scatter,
                   p0_scatter, results, completion, pre, ret>>

\* train, line 147: pool.map raises the error of a task.
TrainMapRaise ==
    /\ pc = "train"
    /\ PoolMapRaises(Pixels, results)
    /\ pc' = "raised"
    /\ outcome' = "TaskError"
    /\ theta' = Abort([theta |-> theta, s2 |-> s2], results).theta
    /\ s2' = Abort([theta |-> theta, s2 |-> s2], results).s2
    /\ UNCHANGED <<data, pool_gen, design_matrix, call, trains, frame>>

\* train, lines 147-150, with the iterator of the builtin map of Python 3:
\* np.array wraps it in a 0-d array without running a task, and results[:, :-1]
\* raises IndexError.
TrainLazyMapError ==
    /\ pc = "train"
    /\ LazyMap
    /\ pc' = "raised"
    /\ outcome' = "IndexError"
    /\ UNCHANGED <<data, pool_gen, design_matrix, theta, s2, call, trains, frame>>

\* train, lines 147-151: every task has returned; the results are unpacked.
TrainCommit ==
    /\ pc = "train"
    /\ ~LazyMap
    /\ \A i \in Pixels : results[i] # None
    /\ theta' = CommitTheta(MapResults(results, completion))
    /\ s2' = CommitS2(MapResults(results, completion))
    /\ pc' = "returned"
    /\ outcome' = "ok"
    /\ UNCHANGED <<data, pool_gen, design_matrix, call, trains, frame>>

\* fit, lines 183-197, on a batch of NumSpectra spectra; the model must have
\* been trained.
FitStart ==
    /\ pc = "idle"
    /\ theta # None
    /\ s2 # None
    /\ pc' = "fit"
    /\ call' = "fit"
    /\ results' = [j \in Spectra |-> None]
    /\ completion' = <<>>
    /\ failed' = {}
    /\ pre' = [theta |-> theta, s2 |-> s2, pool_gen |-> pool_gen]
    /\ UNCHANGED <<data, pool_gen, design_matrix, theta, s2, outcome, trains,
                   fixed_scatter, p0_scatter, ret>>

\* One spectrum task: it returns the labels, or curve_fit raises RuntimeError.
\* The builtin map (whose iterator zip consumes, on Python 3) raises it in fit
\* there and then; a pool keeps it for pool.map.
SpectrumTask(j) ==
    /\ TasksRunning("fit", "fit", "RuntimeError")
    /\ CanRun(j, results)
    /\ \E nfev \in NfevNeeded :
          LET r == _fit_spectrum(j, nfev)
          IN  /\ results' = [results EXCEPT ![j] = r]
              /\ completion' = IF r.ok THEN Append(completion, j) ELSE completion
              /\ failed' = IF r.ok THEN failed ELSE failed \cup {j}
              /\ pc' = IF ~r.ok /\ pool = 0 THEN "raised" ELSE pc
              /\ outcome' = IF ~r.ok /\ pool = 0 THEN "RuntimeError" ELSE outcome
    /\ UNCHANGED <<data, pool_gen, design_matrix, theta, s2, call, trains,
                   fixed_scatter, p0_scatter, pre, ret>>

\* fit, line 201: pool.map raises the error of a task.
FitMapRaise ==
    /\ pc = "fit"
    /\ PoolMapRaises(Spectra, results)
    /\ pc' = "raised"
    /\ outcome' = "RuntimeError"
    /\ UNCHANGED <<data, pool_gen, design_matrix, theta, s2, call, trains, frame>>

\* fit, lines 201-203: the labels of every spectrum, in the order of the batch.
FitReturn ==
    /\ pc = "fit"
    /\ failed = {}
    /\ \A j \in Spectra : results[j] # None
    /\ ret' = [j \in Spectra |-> MapResults(results, completion)[j].labels]
    /\ pc' = "returned"
    /\ outcome' = "ok"
    /\ UNCHANGED <<data, pool_gen, design_matrix, theta, s2, call, trains,
                   fixed_scatter, p0_scatter, results, completion, failed, pre>>

\* The call is over: its frame is gone, and what the workers still do with
\* the rows of a failed map is seen by nobody.
Return ==
    /\ pc \in {"returned", "raised"}
    /\ pc' = "idle"
    /\ call' = "none"
    /\ outcome' = "none"
    /\ fixed_scatter' = FALSE
    /\ p0_scatter' = None
    /\ results' = None
    /\ completion' = <<>>
    /\ failed' = {}
    /\ pre' = None
    /\ ret' = None
    /\ UNCHANGED <<data, pool_gen, design_matrix, theta, s2, trains>>

Next ==
    \/ \E v \in S2Values : SetS2(v)
    \/ \E fixed \in BOOLEAN : TrainRaise(fixed)
    \/ \E fixed \in BOOLEAN : TrainStart(fixed)
    \/ \E i \in Pixels : PixelTask(i)
    \/ \E i \in Pixels : PixelTaskError(i)
    \/ TrainMapRaise
    \/ TrainLazyMapError
    \/ TrainCommit
    \/ FitStart
    \/ \E j \in Spectra : SpectrumTask(j)
    \/ FitMapRaise
    \/ FitReturn
    \/ Return

Spec == Init /\ [][Next]_vars

\* The model with train alone called on it: fit writes nothing that train
\* reads.
TrainNext ==
    \/ \E v \in S2Values : SetS2(v)
    \/ \E fixed \in BOOLEAN : TrainRaise(fixed)
    \/ \E fixed \in BOOLEAN : TrainStart(fixed)
    \/ \E i \in Pixels : PixelTask(i)
    \/ \E i \in Pixels : PixelTaskError(i)
    \/ TrainMapRaise
    \/ TrainLazyMapError
    \/ TrainCommit
    \/ Return

Training == Init /\ [][TrainNext]_vars


\* ================================================================ claims
Sq(x) == RMul(x, x)

Done(i) == results # None /\ results[i] # None

TrainFrame == call = "train" /\ results # None

\* The Gram matrix of pixel i at a scatter.
GramAt(i, scatter) == Gram(DesignMatrix, EffectiveIvar(normalized_ivar[i], scatter))

AllZero(v) == \A m \in 1..Len(v) : v[m] = 0

\* C1: train with fixed_scatter=True on a model whose s2 was never set ends
\* in ValueError with no pixel task run, the pool neither closed nor
\* re-created, and theta and s2 as they were before the call.
C1_FixedScatterNeedsS2 ==
    (call = "train" /\ fixed_scatter /\ pre.s2 = None) =>
        /\ pc = "raised"
        /\ outcome = "ValueError"
        /\ results = None
        /\ completion = <<>>
        /\ pool_gen = pre.pool_gen
        /\ theta = pre.theta
        /\ s2 = pre.s2

C1_Witness ==
    /\ pc = "raised"
    /\ outcome = "ValueError"
    /\ fixed_scatter
    /\ pool = 2
    /\ pool_gen = 0

\* C2: when train has returned, row i of theta and entry i of s2 come from
\* the pixel fit of input pixel i (s2 holding the square of the scatter the fit
\* emitted), whatever the pool and the order in which the tasks completed.
C2_RowsInPixelOrder ==
    (call = "train" /\ pc = "returned") =>
        \A i \in Pixels :
            \E xopt \in OptScatters :
                LET r == _fit_pixel(normalized_flux[i], normalized_ivar[i],
                                  IF fixed_scatter THEN RSqrt(pre.s2[i]) ELSE P0Default,
                                  fixed_scatter, DesignMatrix, xopt)
                IN  /\ results[i] = r
                    /\ theta[i] = r.theta
                    /\ s2[i] = Sq(r.scatter)

C2_Witness ==
    /\ call = "train"
    /\ pc = "returned"
    /\ pool = 2
    /\ completion[1] # 1
    /\ theta[1] # theta[2]

\* C3: while a train call runs and when it ends in an error, theta and s2 are
\* what they were before the call; a call one of whose tasks raised does not
\* return; when a call returns, every row of theta and of s2 comes from that
\* call's results; theta and s2 are never partly filled.
C3_TrainIsAtomic ==
    /\ (call = "train" /\ pc \in {"train", "raised"}) =>
           (theta = pre.theta /\ s2 = pre.s2)
    /\ (call = "train" /\ failed # {}) => pc \in {"train", "raised"}
    /\ (call = "train" /\ pc = "returned") =>
           \A i \in Pixels : /\ results[i] # None
                             /\ theta[i] = results[i].theta
                             /\ s2[i] = Sq(results[i].scatter)
    /\ theta # None => (Len(theta) = NumPixels /\ \A i \in Pixels : theta[i] # None)
    /\ s2 # None => (Len(s2) = NumPixels /\ \A i \in Pixels : s2[i] # None)

C3_Witness ==
    /\ call = "train"
    /\ pc = "raised"
    /\ outcome = "TaskError"
    /\ failed # {}
    /\ completion # <<>>
    /\ pre.theta # None
    /\ theta = pre.theta

\* Every solve of a call log obeys the singular policy at pixel i.
SolveObeysFallback(i, c) ==
    IsSingular(GramAt(i, c.at)) =>
        (c.theta = <<R(1), R(0)>> /\ c.ATCiAinv = None)

\* Every solve made for a pixel whose task has returned obeys the singular
\* policy, the objective of the optimizer is 0.0 at a singular trial, and a
\* train call that has returned holds the fallback theta for the pixels that
\* are singular at their first solve.
SingularSolves ==
    TrainFrame =>
        /\ \A i \in Pixels : Done(i) =>
              \A k \in 1..Len(results[i].calls) :
                  LET c == results[i].calls[k]
                  IN  IF c.op = "_fit_theta"
                      THEN SolveObeysFallback(i, c)
                      ELSE \A t \in 1..Len(c.trials) :
                              /\ SolveObeysFallback(i, c.trials[t])
                              /\ IsSingular(GramAt(i, c.trials[t].at)) =>
                                     c.trials[t].Q = "zero"
        /\ pc = "returned" =>
              \A i \in Pixels :
                  IsSingular(GramAt(i, results[i].calls[1].at)) =>
                      theta[i] = <<R(1), R(0)>>

\* C4, as the spec states it: a solve whose Gram matrix is singular returns
\* theta = (1, 0, ..., 0) and no covariance and raises nothing; so a train
\* call on a training set with singular pixels, none of whose tasks raised,
\* does not end in an error but commits a row for every pixel.
C4_SingularTrainCompletes ==
    /\ SingularSolves
    /\ (call = "train" /\ pc = "raised" /\ p0_scatter # None /\ failed = {}) =>
           ~\E i \in Pixels : IsSingular(GramAt(i, p0_scatter[i]))

\* C5, as the spec states it: with scatter not fixed, a pixel whose flux is
\* zero for every star gets the fallback theta and scatter 0 from one solve,
\* the optimizer not being called.
C5_ZeroFluxFallback ==
    (TrainFrame /\ ~fixed_scatter) =>
        \A i \in Pixels : (Done(i) /\ AllZero(normalized_flux[i])) =>
            /\ results[i].theta = <<R(1), R(0)>>
            /\ results[i].scatter = R(0)
            /\ Len(results[i].calls) = 1

\* C5, amended: with scatter not fixed, a pixel whose inverse variance is zero
\* for every star gets the fallback theta and scatter 0 from one singular
\* solve, the optimizer not being called.
C5_ZeroIvarFallback ==
    (TrainFrame /\ ~fixed_scatter) =>
        \A i \in Pixels : (Done(i) /\ AllZero(normalized_ivar[i])) =>
            /\ results[i].theta = <<R(1), R(0)>>
            /\ results[i].scatter = R(0)
            /\ Len(results[i].calls) = 1
            /\ results[i].calls[1].op = "_fit_theta"
            /\ results[i].calls[1].ATCiAinv = None

C5_Witness ==
    /\ call = "train"
    /\ pc = "returned"
    /\ ~fixed_scatter
    /\ \E i \in Pixels :
          /\ AllZero(normalized_ivar[i])
          /\ AllZero(normalized_flux[i])
          /\ theta[i] = <<R(1), R(0)>>
          /\ s2[i] = R(0)

\* C6: in a train call with fixed_scatter=True, every pixel is solved exactly
\* once, at the root of its s2, the optimizer is never called, and when the
\* call returns s2 is what it was before, singular pixels included.
C6_FixedScatterKept ==
    (TrainFrame /\ fixed_scatter) =>
        /\ \A i \in Pixels : Done(i) =>
              /\ Len(results[i].calls) = 1
              /\ results[i].calls[1].op = "_fit_theta"
              /\ RGeq0(results[i].calls[1].at)
              /\ Sq(results[i].calls[1].at) = pre.s2[i]
        /\ pc = "returned" => s2 = pre.s2

C6_Witness ==
    /\ call = "train"
    /\ pc = "returned"
    /\ fixed_scatter
    /\ \E i, j \in Pixels :
          /\ results[i].calls[1].ATCiAinv = None
          /\ s2[i] # R(0)
          /\ results[j].calls[1].ATCiAinv # None
          /\ s2[j] = pre.s2[j]

\* C7, as the spec states it: when a spectrum of a batch needs more function
\* evaluations than the cap, it is reported as a failure and the labels of the
\* other spectra are still returned by the fit call.
C7_SiblingsStillReturned ==
    (call = "fit" /\ pc \in {"raised", "returned"}) =>
        \A j \in Spectra : (results[j] # None /\ results[j].nfev > MaxFev) =>
            /\ ~results[j].ok
            /\ ret # None
            /\ \A k \in Spectra \ {j} :
                  (results[k] # None /\ results[k].ok) => ret[k] = results[k].labels

\* C8: every entry of the model's s2 is >= 0.
C8_ScatterNonNegative ==
    s2 # None => \A i \in Pixels : RGeq0(s2[i])

C8_Witness ==
    /\ call = "train"
    /\ pc = "returned"
    /\ \E i \in Pixels : /\ ~RGeq0(results[i].scatter)
                         /\ s2[i] = Sq(results[i].scatter)
                         /\ s2[i] # R(0)

\* C9: with scatter fixed at 0, the theta of a pixel whose Gram matrix is
\* nonsingular solves the weighted normal equations
\* (D^T diag(ivar) D) theta = D^T (ivar * flux), and its scatter stays 0; flux
\* (1, 2, 3) with ivar (1, 1, 1) gives theta = (1, 1).
C9_WeightedLeastSquares ==
    (call = "train" /\ pc = "returned" /\ fixed_scatter) =>
        \A i \in Pixels :
            LET w == [m \in 1..Len(DesignMatrix) |-> R(normalized_ivar[i][m])]
                A == Gram(DesignMatrix, w)
            IN  (pre.s2[i] = R(0) /\ ~IsSingular(A)) =>
                    /\ MatVec(A, theta[i]) = ATYOf(DesignMatrix, normalized_flux[i], w)
                    /\ s2[i] = R(0)
                    /\ (normalized_flux[i] = <<1, 2, 3>> /\ normalized_ivar[i] = <<1, 1, 1>>)
                           => theta[i] = <<R(1), R(1)>>

C9_Witness ==
    /\ call = "train"
    /\ pc = "returned"
    /\ fixed_scatter
    /\ \E i, j \in Pixels :
          /\ pre.s2[i] = R(0)
          /\ normalized_flux[i] = <<1, 2, 3>>
          /\ normalized_ivar[i] = <<1, 1, 1>>
          /\ theta[i] = <<R(1), R(1)>>
          /\ pre.s2[j] = R(0)
          /\ normalized_ivar[j] = <<20000, 10000, 10000>>
          /\ theta[j] = <<<<14, 11>>, <<7, 11>>>>

\* C10: with scatter not fixed and a nonsingular first solve, the pixel fit
\* makes the solve at the initial guess, then the optimization, then exactly
\* one more solve at the scatter the optimizer returned; it emits that scatter
\* and the theta of that last solve.
C10_ResolveAtOptimum ==
    (TrainFrame /\ ~fixed_scatter) =>
        \A i \in Pixels : (Done(i) /\ results[i].calls[1].ATCiAinv # None) =>
            LET r == results[i] IN
            /\ Len(r.calls) = 3
            /\ r.calls[1].op = "_fit_theta"
            /\ r.calls[1].at = P0Default
            /\ r.calls[2].op = "fmin_powell"
            /\ r.calls[2].x0 = P0Default
            /\ r.calls[3].op = "_fit_theta"
            /\ r.calls[3].at = r.calls[2].xopt
            /\ r.scatter = r.calls[2].xopt
            /\ r.theta = r.calls[3].theta
            /\ r.theta = _fit_theta(normalized_flux[i], normalized_ivar[i], r.scatter,
                                  DesignMatrix).theta

C10_Witness ==
    /\ call = "train"
    /\ pc = "returned"
    /\ ~fixed_scatter
    /\ \E i \in Pixels :
          /\ Len(results[i].calls) = 3
          /\ theta[i] = results[i].calls[3].theta
          /\ theta[i] # results[i].calls[1].theta
          /\ theta[i] # results[i].calls[2].trials[1].theta
====
